---- MODULE Spec2Model ----
(***************************************************************************)
(* A model of the task manager of src/main.py: the Task record, the        *)
(* TaskManager's in-memory list, and the file tasks.json it loads from     *)
(* and saves to.                                                           *)
(*                                                                         *)
(* Values.  A datetime is an integer of Datetimes (its ordinal); None is  *)
(* the empty sequence and a present due date d is <<d>>.  A JSON value of  *)
(* the due_date field is a record [form, d]: form "null" is JSON null,     *)
(* "None" the string "None", "date" the string "YYYY-MM-DD" of datetime d, *)
(* "datetime" the string "YYYY-MM-DD HH:MM:SS" of d, and "other" any other *)
(* string.                                                                 *)
(***************************************************************************)
EXTENDS Integers, Sequences, FiniteSets

VARIABLES tasks, file, pc, last, out, adds, failures

vars == <<tasks, file, pc, last, out, adds, failures>>

(* ------------------------------ bounds -------------------------------- *)

MaxTasks == 2

MaxFailures == 1

Names == {"a"}

Priorities == {1, 2}

PostponeDays == {-1, 1}

(* ------------------------------ values -------------------------------- *)

\* datetime.max, the largest datetime (the sort key of a task without a due date)
DatetimeMax == 2

\* every datetime value: datetime.min is 1
Datetimes == 1..DatetimeMax

None == <<>>

DueDates == {None} \cup {<<d>> : d \in Datetimes}

TaskIds == 1..(MaxTasks + 1)

AllKeys == {"task_id", "name", "priority", "due_date", "status"}

\* a faulty variant: ids counted from zero
NewTaskIdFromZero(seq) == Len(seq)

\* add_task: the id of the next task
NewTaskId(seq) == Len(seq) + 1

\* a faulty variant: a new task is Completed
TaskCompleted(task_id, name, priority, due_date) ==
    [task_id |-> task_id, name |-> name, priority |-> priority,
     due_date |-> due_date, status |-> "Completed"]

\* Task.__init__: a new task is Pending
Task(task_id, name, priority, due_date) ==
    [task_id |-> task_id, name |-> name, priority |-> priority,
     due_date |-> due_date, status |-> "Pending"]

(* ----------------------------- sequences ------------------------------ *)

\* the positions of seq whose element has this id
IndicesOf(seq, task_id) == {i \in 1..Len(seq) : seq[i].task_id = task_id}

SetMin(S) == CHOOSE x \in S : \A y \in S : x <= y

\* list.remove at a known position
RemoveAt(seq, i) == SubSeq(seq, 1, i - 1) \o SubSeq(seq, i + 1, Len(seq))

(* --------------------------- get_task_by_id --------------------------- *)

\* does the generator of get_task_by_id yield a task?
Found(seq, task_id) == IndicesOf(seq, task_id) # {}

\* a faulty variant: the position of the last task with this id
LastIndex(seq, task_id) ==
    CHOOSE x \in IndicesOf(seq, task_id) : \A y \in IndicesOf(seq, task_id) : y <= x

\* next(...): the position of the first task with this id
FirstIndex(seq, task_id) == SetMin(IndicesOf(seq, task_id))

\* get_task_by_id: <<task>> when found, None (and a message) otherwise
GetTaskById(seq, task_id) ==
    IF Found(seq, task_id) THEN <<seq[FirstIndex(seq, task_id)]>> ELSE None

(* ------------------------------- save --------------------------------- *)

\* json.dump's encoding of a due_date: None is JSON null; a datetime is not
\* JSON serializable, so default=str writes str(datetime), date and time
DumpDueDate(due_date) ==
    IF due_date = None THEN [form |-> "null", d |-> 0]
    ELSE [form |-> "datetime", d |-> due_date[1]]

\* task.__dict__ as a JSON object
DumpTask(t) ==
    [task_id |-> t.task_id, name |-> t.name, priority |-> t.priority,
     due_date |-> DumpDueDate(t.due_date), status |-> t.status, keys |-> AllKeys]

\* the content json.dump writes for a collection
Dump(seq) == [kind |-> "json", data |-> [i \in 1..Len(seq) |-> DumpTask(seq[i])]]

\* a failed write: open() failed (the file is as it was) or the write broke off
\* (the file is truncated, no longer JSON)
FailedWrites(f) == {f, [kind |-> "garbage", data |-> <<>>]}

\* save_tasks: the file after a save of seq, with ok the outcome of the write
SavedFile(seq, f, ok) == IF ok THEN {Dump(seq)} ELSE FailedWrites(f)

\* a faulty variant: the IOError of a failed write is not caught
AfterSaveUncaught(ok) == IF ok THEN "running" ELSE "crashed"

\* save_tasks catches the IOError of a failed write: the caller goes on
AfterSave(ok) == "running"

\* the messages of save_tasks
SaveMsgs(ok) == IF ok THEN <<>> ELSE <<"save_error">>

(* ------------------------------- load --------------------------------- *)

\* datetime.strptime(text, "%Y-%m-%d") succeeds on a date-only string
StrptimeOk(j) == j.form = "date"

\* what one record of the file raises in the loop body of load_tasks, "" if nothing
RecordError(r) ==
    IF "task_id" \notin r.keys \/ "name" \notin r.keys \/ "priority" \notin r.keys
        THEN "KeyError"
    ELSE IF "due_date" \notin r.keys THEN "KeyError"
    ELSE IF r.due_date.form = "None" THEN
        (IF "status" \notin r.keys THEN "KeyError" ELSE "")
    ELSE IF r.due_date.form = "null" THEN "TypeError"
    ELSE IF ~StrptimeOk(r.due_date) THEN "ValueError"
    ELSE IF "status" \notin r.keys THEN "KeyError"
    ELSE ""

\* the Task a well-formed record is loaded as
LoadTask(r) ==
    [task_id |-> r.task_id, name |-> r.name, priority |-> r.priority,
     due_date |-> IF r.due_date.form = "None" THEN None ELSE <<r.due_date.d>>,
     status |-> r.status]

\* the records before the first one that raises
BadIndices(data) == {i \in 1..Len(data) : RecordError(data[i]) # ""}

LoadedPrefix(data) ==
    IF BadIndices(data) = {} THEN [i \in 1..Len(data) |-> LoadTask(data[i])]
    ELSE [i \in 1..(SetMin(BadIndices(data)) - 1) |-> LoadTask(data[i])]

\* the exception load_tasks lets through, "" if none
LoadError(f) ==
    IF f.kind = "json" /\ BadIndices(f.data) # {}
        THEN RecordError(f.data[SetMin(BadIndices(f.data))])
    ELSE ""

\* self.tasks when load_tasks ends (normally or not)
LoadedTasks(f) == IF f.kind = "json" THEN LoadedPrefix(f.data) ELSE <<>>

\* the messages of load_tasks: JSONDecodeError and IOError are caught and reported
LoadMsgs(f) == IF f.kind = "garbage" THEN <<"load_error">> ELSE <<>>

(* ----------------------------- prioritize ----------------------------- *)

\* the key of the sort: (priority, due_date or datetime.max)
DueKey(t) == IF t.due_date = None THEN DatetimeMax ELSE t.due_date[1]

\* a faulty variant: the sort key is the priority alone
KeyLessPriorityOnly(a, b) == a.priority < b.priority

\* tuple comparison of two keys
KeyLess(a, b) ==
    \/ a.priority < b.priority
    \/ a.priority = b.priority /\ DueKey(a) < DueKey(b)

\* a faulty variant: insert t before the elements of equal key (not stable)
RECURSIVE InsertBeforeEqual(_, _)
InsertBeforeEqual(t, sorted) ==
    IF sorted = <<>> THEN <<t>>
    ELSE IF ~KeyLess(Head(sorted), t) THEN <<t>> \o sorted
    ELSE <<Head(sorted)>> \o InsertBeforeEqual(t, Tail(sorted))

\* a faulty variant: t is dropped when an element of equal key is there already
RECURSIVE InsertUnlessEqual(_, _)
InsertUnlessEqual(t, sorted) ==
    IF sorted = <<>> THEN <<t>>
    ELSE IF KeyLess(t, Head(sorted)) THEN <<t>> \o sorted
    ELSE IF ~KeyLess(Head(sorted), t) THEN sorted
    ELSE <<Head(sorted)>> \o InsertUnlessEqual(t, Tail(sorted))

\* insert t after every element whose key is not greater (stable)
RECURSIVE InsertStable(_, _)
InsertStable(t, sorted) ==
    IF sorted = <<>> THEN <<t>>
    ELSE IF KeyLess(t, Head(sorted)) THEN <<t>> \o sorted
    ELSE <<Head(sorted)>> \o InsertStable(t, Tail(sorted))

\* a faulty variant: a sort that builds its result from the end of the list and
\* so reverses the tasks of equal key
RECURSIVE SortTasksFromHead(_)
SortTasksFromHead(seq) ==
    IF seq = <<>> THEN <<>>
    ELSE InsertStable(Head(seq), SortTasksFromHead(Tail(seq)))

\* list.sort(key=...): the stable sort of seq
RECURSIVE SortTasks(_)
SortTasks(seq) ==
    IF seq = <<>> THEN <<>>
    ELSE InsertStable(seq[Len(seq)], SortTasks(SubSeq(seq, 1, Len(seq) - 1)))

(* ------------------------------ the file ------------------------------ *)

JsonRec(task_id, due, keys) ==
    [task_id |-> task_id, name |-> "a", priority |-> 1, due_date |-> due,
     status |-> "Pending", keys |-> keys]

\* the files the program may find when it starts
InitFiles ==
    { [kind |-> "absent", data |-> <<>>],
      [kind |-> "garbage", data |-> <<>>],
      [kind |-> "json", data |-> <<>>],
      [kind |-> "json", data |-> <<JsonRec(1, [form |-> "date", d |-> 1], AllKeys)>>],
      [kind |-> "json", data |-> <<JsonRec(1, [form |-> "other", d |-> 0], AllKeys)>>],
      [kind |-> "json", data |->
          <<JsonRec(1, [form |-> "None", d |-> 0], AllKeys \ {"status"})>>],
      [kind |-> "json", data |->
          <<JsonRec(1, [form |-> "None", d |-> 0], AllKeys),
            JsonRec(2, [form |-> "date", d |-> 1], AllKeys \ {"priority"})>>] }

(* ------------------------------ actions ------------------------------- *)

\* the record of a call: the operation, its id argument (0 if none), and, for
\* prioritize_tasks and mark_task_complete, whether the call before it was the
\* same call
Call(op, id) ==
    [op |-> op, id |-> id,
     again |-> op \in {"prioritize", "complete"} /\ last.op = op /\ last.id = id]

\* save_tasks on seq: the write succeeds, or fails (at most MaxFailures times)
Save(seq, ok) ==
    /\ ok \/ failures < MaxFailures
    /\ file' \in SavedFile(seq, file, ok)
    /\ failures' = IF ok THEN failures ELSE failures + 1
    /\ pc' = AfterSave(ok)

Init ==
    /\ tasks = <<>>
    /\ file \in InitFiles
    /\ pc = "new"
    /\ last = [op |-> "none", id |-> 0, again |-> FALSE]
    /\ out = <<>>
    /\ adds = 0
    /\ failures = 0

\* TaskManager(): self.tasks = [] and load_tasks(); an exception that load_tasks
\* does not catch leaves the constructor
NewTaskManager ==
    /\ tasks' = LoadedTasks(file)
    /\ pc' = IF LoadError(file) = "" THEN "running" ELSE "crashed"
    /\ out' = IF LoadError(file) = "" THEN LoadMsgs(file) ELSE <<LoadError(file)>>
    /\ last' = Call("load", 0)
    /\ UNCHANGED <<file, failures>>

AddTask(name, priority, due_date) ==
    /\ pc = "running"
    /\ Len(tasks) < MaxTasks
    /\ \E ok \in BOOLEAN :
        /\ tasks' = Append(tasks, Task(NewTaskId(tasks), name, priority, due_date))
        /\ Save(tasks', ok)
        /\ out' = SaveMsgs(ok)
    /\ last' = Call("add", tasks'[Len(tasks')].task_id)

\* a faulty variant: remove_task saves whether or not the task was found
RemoveTaskAlwaysSaves(task_id) ==
    /\ pc = "running"
    /\ IF Found(tasks, task_id)
       THEN \E ok \in BOOLEAN :
            /\ tasks' = RemoveAt(tasks, FirstIndex(tasks, task_id))
            /\ Save(tasks', ok)
            /\ out' = SaveMsgs(ok) \o <<"removed">>
       ELSE \E ok \in BOOLEAN :
            /\ tasks' = tasks
            /\ Save(tasks', ok)
            /\ out' = <<"not_found">> \o SaveMsgs(ok)
    /\ last' = Call("remove", task_id)

\* remove_task: looks the task up, removes that object from the list and saves
RemoveTask(task_id) ==
    /\ pc = "running"
    /\ IF Found(tasks, task_id)
       THEN \E ok \in BOOLEAN :
            /\ tasks' = RemoveAt(tasks, FirstIndex(tasks, task_id))
            /\ Save(tasks', ok)
            /\ out' = SaveMsgs(ok) \o <<"removed">>
       ELSE /\ out' = <<"not_found">>
            /\ UNCHANGED <<tasks, file, failures, pc>>
    /\ last' = Call("remove", task_id)

\* prioritize_tasks: sorts the list in place and saves
PrioritizeTasks ==
    /\ pc = "running"
    /\ \E ok \in BOOLEAN :
        /\ tasks' = SortTasks(tasks)
        /\ Save(tasks', ok)
        /\ out' = SaveMsgs(ok) \o <<"prioritized">>
    /\ last' = Call("prioritize", 0)

\* a faulty variant: the status is toggled
MarkCompleteToggle(seq, i) ==
    [seq EXCEPT ![i].status = IF @ = "Pending" THEN "Completed" ELSE "Pending"]

\* Task.mark_complete on the task at position i
MarkComplete(seq, i) == [seq EXCEPT ![i].status = "Completed"]

\* mark_task_complete: looks the task up, completes it and saves
MarkTaskComplete(task_id) ==
    /\ pc = "running"
    /\ IF Found(tasks, task_id)
       THEN \E ok \in BOOLEAN :
            /\ tasks' = MarkComplete(tasks, FirstIndex(tasks, task_id))
            /\ Save(tasks', ok)
            /\ out' = SaveMsgs(ok) \o <<"completed">>
       ELSE /\ out' = <<"not_found">>
            /\ UNCHANGED <<tasks, file, failures, pc>>
    /\ last' = Call("complete", task_id)

\* does due_date + timedelta(days) leave the range of datetime (OverflowError)?
Overflows(due_date, days) == due_date[1] + days \notin Datetimes

\* Task.postpone on the task at position i of the list; nothing is saved. The
\* OverflowError of the addition is not caught and leaves the caller.
Postpone(i, days) ==
    /\ pc = "running"
    /\ i \in 1..Len(tasks)
    /\ IF tasks[i].due_date = None
       THEN /\ out' = <<"no_due_date">>
            /\ UNCHANGED <<tasks, pc>>
       ELSE IF Overflows(tasks[i].due_date, days)
       THEN /\ out' = <<"OverflowError">>
            /\ pc' = "crashed"
            /\ UNCHANGED tasks
       ELSE /\ tasks' = [tasks EXCEPT ![i].due_date = <<tasks[i].due_date[1] + days>>]
            /\ out' = <<>>
            /\ UNCHANGED pc
    /\ last' = Call("postpone", tasks[i].task_id)
    /\ UNCHANGED <<file, failures>>

\* save_tasks called by itself
SaveTasks ==
    /\ pc = "running"
    /\ \E ok \in BOOLEAN :
        /\ Save(tasks, ok)
        /\ out' = SaveMsgs(ok)
    /\ last' = Call("save", 0)
    /\ UNCHANGED tasks

\* list_tasks: prints one line for each task, in the order of the list; nothing
\* changes
ListTasks ==
    /\ pc = "running"
    /\ out' = [i \in 1..Len(tasks) |-> "task_line"]
    /\ last' = Call("list", 0)
    /\ UNCHANGED <<tasks, file, failures, pc>>

\* the whole program: the store's operations and Task.postpone. The calls of
\* add_task are not counted here.
Next ==
    \/ NewTaskManager /\ UNCHANGED adds
    \/ (\E n \in Names, p \in Priorities, d \in DueDates : AddTask(n, p, d))
            /\ UNCHANGED adds
    \/ (\E i \in TaskIds : RemoveTask(i)) /\ UNCHANGED adds
    \/ PrioritizeTasks /\ UNCHANGED adds
    \/ (\E i \in TaskIds : MarkTaskComplete(i)) /\ UNCHANGED adds
    \/ (\E i \in 1..MaxTasks, days \in PostponeDays : Postpone(i, days))
            /\ UNCHANGED adds
    \/ ListTasks /\ UNCHANGED adds
    \/ SaveTasks /\ UNCHANGED adds

Spec == Init /\ [][Next]_vars

\* the operations of the store that load, change or save the collection
NextStore ==
    \/ NewTaskManager /\ UNCHANGED adds
    \/ (\E n \in Names, p \in Priorities, d \in DueDates : AddTask(n, p, d))
            /\ UNCHANGED adds
    \/ (\E i \in TaskIds : RemoveTask(i)) /\ UNCHANGED adds
    \/ PrioritizeTasks /\ UNCHANGED adds
    \/ (\E i \in TaskIds : MarkTaskComplete(i)) /\ UNCHANGED adds
    \/ SaveTasks /\ UNCHANGED adds

\* the store in the runs in which no write fails
NextReliable ==
    \/ NewTaskManager /\ UNCHANGED adds
    \/ (\E n \in Names, p \in Priorities, d \in DueDates : AddTask(n, p, d))
            /\ UNCHANGED <<adds, failures>>
    \/ (\E i \in TaskIds : RemoveTask(i)) /\ UNCHANGED <<adds, failures>>
    \/ PrioritizeTasks /\ UNCHANGED <<adds, failures>>
    \/ (\E i \in TaskIds : MarkTaskComplete(i)) /\ UNCHANGED <<adds, failures>>
    \/ SaveTasks /\ UNCHANGED <<adds, failures>>

SpecReliable == Init /\ [][NextReliable]_vars

\* a program that starts with no file
InitEmpty == Init /\ file.kind = "absent"

SpecEmpty == InitEmpty /\ [][NextStore]_vars

\* every operation of the store and of its tasks, from no file, in the runs in
\* which no write fails
NextSession ==
    \/ NewTaskManager /\ UNCHANGED adds
    \/ (\E n \in Names, p \in Priorities, d \in DueDates : AddTask(n, p, d))
            /\ UNCHANGED <<adds, failures>>
    \/ (\E i \in TaskIds : RemoveTask(i)) /\ UNCHANGED <<adds, failures>>
    \/ PrioritizeTasks /\ UNCHANGED <<adds, failures>>
    \/ (\E i \in TaskIds : MarkTaskComplete(i)) /\ UNCHANGED <<adds, failures>>
    \/ (\E i \in 1..MaxTasks, days \in PostponeDays : Postpone(i, days))
            /\ UNCHANGED adds
    \/ ListTasks /\ UNCHANGED adds
    \/ SaveTasks /\ UNCHANGED <<adds, failures>>

SpecSession == InitEmpty /\ [][NextSession]_vars

\* a store on which remove_task is never called; adds counts the calls of add_task
\* since the store was made
NextNoRemove ==
    \/ NewTaskManager /\ adds' = 0
    \/ (\E n \in Names, p \in Priorities, d \in DueDates : AddTask(n, p, d))
            /\ adds' = adds + 1
    \/ PrioritizeTasks /\ UNCHANGED adds
    \/ (\E i \in TaskIds : MarkTaskComplete(i)) /\ UNCHANGED adds

SpecNoRemove == InitEmpty /\ [][NextNoRemove]_vars

(* ------------------------------- claims ------------------------------- *)

\* was this message printed by the last call?
Reported(msg) == \E i \in 1..Len(out) : out[i] = msg

SaveFailed == Reported("save_error")

\* C1: a successful save_tasks() followed by the construction of a fresh store
\* completes and yields the collection that was saved: same length, same order,
\* same (id, name, priority, due_date, status) at every position.
RoundTrip ==
    [][(pc = "running" /\ last.op = "save" /\ ~SaveFailed /\ last'.op = "load")
        => (pc' = "running" /\ tasks' = tasks)]_vars

\* C2: from an empty store, under add, remove, prioritize and mark_complete,
\* every task id is a positive integer and no two tasks share an id.
IdsUnique ==
    \A i, j \in 1..Len(tasks) :
        /\ tasks[i].task_id >= 1
        /\ i # j => tasks[i].task_id # tasks[j].task_id

\* C3: right after remove(i) returns, the lookup of i finds no task.
RemoveThenNotFound ==
    (pc = "running" /\ last.op = "remove") => GetTaskById(tasks, last.id) = None

\* C4: on a store that starts empty and on which remove is never called, the
\* k-th call of add creates the task with id k: after N calls the ids are
\* exactly 1..N, each once.
AddIdsInCallOrder ==
    pc = "running" =>
        /\ Len(tasks) = adds
        /\ {tasks[i].task_id : i \in 1..Len(tasks)} = 1..adds
        /\ last.op = "add" => (last.id = adds /\ tasks[Len(tasks)].task_id = adds)

AddIdsWitness ==
    /\ pc = "running"
    /\ last.op = "add"
    /\ adds = 2
    /\ tasks[1].status = "Completed"

\* C5: mark_complete(i) with i present makes the task the lookup of i returns
\* Completed, and a second mark_complete(i) right after it leaves the whole
\* collection as the first call left it.
MarkCompleteIdempotent ==
    [][(last'.op = "complete" /\ Found(tasks, last'.id))
        => /\ GetTaskById(tasks', last'.id) # None
           /\ GetTaskById(tasks', last'.id)[1].status = "Completed"
           /\ last'.again => tasks' = tasks]_vars

MarkCompleteTwice ==
    /\ pc = "running"
    /\ last.op = "complete"
    /\ last.again
    /\ Len(tasks) = 2
    /\ GetTaskById(tasks, last.id) # None

\* is a's due date later than b's, when no due date is later than every date?
DueLater(a, b) ==
    IF a.due_date = None THEN b.due_date # None
    ELSE b.due_date # None /\ a.due_date[1] > b.due_date[1]

\* C6 as stated: after prioritize(), for A before B, A.priority <= B.priority
\* and at equal priority A's due date is not later than B's, a task without a
\* due date counting as later than every concrete date.
PrioritizeNoDueDateLast ==
    (pc = "running" /\ last.op = "prioritize") =>
        \A i, j \in 1..Len(tasks) : i < j =>
            /\ tasks[i].priority <= tasks[j].priority
            /\ tasks[i].priority = tasks[j].priority
                => ~DueLater(tasks[i], tasks[j])

\* the due date a task sorts by: no due date counts as datetime.max
DueOrMax(t) == IF t.due_date = None THEN DatetimeMax ELSE t.due_date[1]

SortedByKey(seq) ==
    \A i, j \in 1..Len(seq) : i < j =>
        /\ seq[i].priority <= seq[j].priority
        /\ seq[i].priority = seq[j].priority => DueOrMax(seq[i]) <= DueOrMax(seq[j])

\* C6 as amended: after prioritize(), for A before B, A.priority <= B.priority
\* and at equal priority A's due date is not later than B's, a task without a
\* due date counting as due at datetime.max: later than every other date and
\* tied with a task due at datetime.max itself.
PrioritizeSortsByKey ==
    (pc = "running" /\ last.op = "prioritize") => SortedByKey(tasks)

PrioritizeWitness ==
    /\ pc = "running"
    /\ last.op = "prioritize"
    /\ Len(tasks) = 2
    /\ tasks[1].priority = tasks[2].priority
    /\ tasks[1].due_date # None
    /\ tasks[2].due_date = None
    /\ tasks[1].task_id > tasks[2].task_id

\* C7 as stated: a second prioritize() right after a first leaves the order of
\* the collection and the persisted file as the first call left them.
PrioritizeTwiceSame ==
    [][(last'.op = "prioritize" /\ last'.again)
        => (tasks' = tasks /\ file' = file)]_vars

\* C7 as amended: a second prioritize() right after a first leaves the order of
\* the collection as the first call left it, and the persisted file too when
\* the write of neither call failed.
PrioritizeIdempotent ==
    [][(last'.op = "prioritize" /\ last'.again)
        => /\ tasks' = tasks
           /\ (~SaveFailed /\ ~SaveFailed') => file' = file]_vars

PrioritizeTwice ==
    /\ pc = "running"
    /\ last.op = "prioritize"
    /\ last.again
    /\ ~SaveFailed
    /\ Len(tasks) = 2
    /\ tasks[1].priority = tasks[2].priority
    /\ DueOrMax(tasks[1]) = DueOrMax(tasks[2])
    /\ file = Dump(tasks)

\* a file that is not a list of well-formed records
Malformed(f) ==
    \/ f.kind = "garbage"
    \/ /\ f.kind = "json"
       /\ \E i \in 1..Len(f.data) :
            \/ f.data[i].keys # AllKeys
            \/ f.data[i].due_date.form \notin {"date", "None"}

\* C8: the construction of a store over a malformed file completes normally,
\* reports the failure and leaves the collection empty.
LoadMalformedIsEmpty ==
    (last.op = "load" /\ Malformed(file)) =>
        (pc = "running" /\ tasks = <<>> /\ Reported("load_error"))

\* C9: remove(i) or mark_complete(i) with an id no task has leaves the
\* collection and the persisted file unchanged, reports the lookup failure and
\* returns normally.
LookupFailureNoOp ==
    [][(last'.op \in {"remove", "complete"} /\ ~Found(tasks, last'.id))
        => /\ tasks' = tasks
           /\ file' = file
           /\ pc' = "running"
           /\ Reported("not_found")']_vars

LookupFailureWitness ==
    /\ pc = "running"
    /\ last.op = "remove"
    /\ Reported("not_found")
    /\ Len(tasks) = 1
    /\ file.kind = "json"
    /\ file # Dump(tasks)

\* what add, remove, prioritize and mark_complete do to the collection
Mutated(op, id, before, after) ==
    CASE op = "add" ->
            /\ Len(after) = Len(before) + 1
            /\ SubSeq(after, 1, Len(before)) = before
            /\ after[Len(after)].task_id = id
      [] op = "remove" ->
            /\ Len(after) = Len(before) - 1
            /\ \E k \in 1..Len(before) :
                /\ before[k].task_id = id
                /\ after = RemoveAt(before, k)
      [] op = "prioritize" ->
            /\ Len(after) = Len(before)
            /\ SortedByKey(after)
      [] op = "complete" ->
            /\ Len(after) = Len(before)
            /\ \E k \in 1..Len(after) :
                after[k].task_id = id /\ after[k].status = "Completed"

StoreOps == {"add", "remove", "prioritize", "complete"}

\* C10: when the write fails during add, remove, prioritize or mark_complete,
\* the call returns normally, the collection keeps what the call did to it,
\* and the store's operations can still be called.
SaveFailureKeepsMutation ==
    /\ []((SaveFailed /\ last.op \in StoreOps) =>
            /\ pc = "running"
            /\ ENABLED PrioritizeTasks
            /\ \A i \in TaskIds : ENABLED MarkTaskComplete(i))
    /\ [][(SaveFailed' /\ last'.op \in StoreOps) =>
            /\ pc' = "running"
            /\ Mutated(last'.op, last'.id, tasks, tasks')]_vars

SaveFailureWitness ==
    /\ pc = "running"
    /\ SaveFailed
    /\ last.op = "add"
    /\ Len(tasks) = 2
    /\ file.kind = "json"
    /\ Len(file.data) = 1

\* the ways the tasks after a step can stem from the tasks before it: f[j] is the
\* position before the step of the task now at position j, and 0 for a task that
\* add_task has just made (the last one of the list); no two tasks stem from the
\* same task
Origins ==
    { f \in [1..Len(tasks') -> 0..Len(tasks)] :
        /\ \A j, k \in 1..Len(tasks') : (j # k /\ f[j] # 0) => f[j] # f[k]
        /\ \A j \in 1..Len(tasks') :
              f[j] = 0 => (last'.op = "add" /\ j = Len(tasks')) }

\* the task t stems from the task s: it has the identity that s had, and its
\* status is the status of s, or Completed
SameTaskOn(s, t) ==
    /\ t.task_id = s.task_id /\ t.name = s.name /\ t.priority = s.priority
    /\ t.status \in {s.status, "Completed"}

\* C11: the status of a task goes one way. Over every operation of the store and
\* of a task (add, remove, prioritize, mark_complete, postpone, list, save) the
\* tasks after the step are tasks of before it, each with the status it had or
\* Completed (so a Completed task stays Completed and never takes another
\* value), but for the task add_task has just made, which is Pending.
StatusOneWay ==
    [][last'.op \in {"add", "remove", "prioritize", "complete", "postpone",
                     "list", "save"}
        => \E f \in Origins : \A j \in 1..Len(tasks') :
              IF f[j] = 0 THEN tasks'[j].status = "Pending"
              ELSE SameTaskOn(tasks[f[j]], tasks'[j])]_vars

\* a Completed task and a Pending one have been through prioritize_tasks, which has
\* moved the Completed one past the other
StatusWitness ==
    /\ last.op = "prioritize" /\ ~last.again
    /\ Len(tasks) = 2
    /\ tasks[1].status = "Pending" /\ tasks[2].status = "Completed"
    /\ tasks[2].task_id = 1

\* C12: in the file a successful save_tasks() writes, the due_date of every record
\* is the text "YYYY-MM-DD" of the task's due date, and the text "None" for a
\* task without one (the two forms load_tasks reads).
SavedDueDateForms ==
    (pc = "running" /\ last.op \in {"add", "prioritize", "save"} /\ ~SaveFailed)
        => /\ file.kind = "json"
           /\ Len(file.data) = Len(tasks)
           /\ \A i \in 1..Len(tasks) :
                 file.data[i].due_date =
                     IF tasks[i].due_date = None THEN [form |-> "None", d |-> 0]
                     ELSE [form |-> "date", d |-> tasks[i].due_date[1]]

\* the due date a JSON value of the file stands for, whatever its form
DueOf(j) == IF j.form \in {"null", "None"} THEN None ELSE <<j.d>>

\* the file f holds the collection seq: as many records, in the same order, with
\* the same field values
FileHolds(f, seq) ==
    /\ f.kind = "json"
    /\ Len(f.data) = Len(seq)
    /\ \A i \in 1..Len(seq) :
          /\ f.data[i].task_id = seq[i].task_id
          /\ f.data[i].name = seq[i].name
          /\ f.data[i].priority = seq[i].priority
          /\ DueOf(f.data[i].due_date) = seq[i].due_date
          /\ f.data[i].status = seq[i].status

\* C13: while no write has failed, after every operation that changes the
\* collection (add, remove and mark_complete of an id that is there, prioritize,
\* and a postpone that has moved the due date of a stored task) the file holds
\* the collection as it now is in memory.
FileHoldsCollection ==
    [][(/\ failures' = 0
        /\ \/ last'.op \in {"add", "prioritize"}
           \/ last'.op \in {"remove", "complete"} /\ Found(tasks, last'.id)
           \/ last'.op = "postpone" /\ tasks' # tasks)
        => FileHolds(file', tasks')]_vars

\* the tasks of seq with this priority and this due date, in the order of seq
TieClass(seq, p, d) ==
    SelectSeq(seq, LAMBDA t : t.priority = p /\ t.due_date = d)

\* C14: prioritize_tasks is stable: the tasks of equal priority and equal due
\* date (or all without one) stand after it in the order they stood in before.
PrioritizeStable ==
    [][last'.op = "prioritize"
        => \A p \in Priorities, d \in DueDates :
              TieClass(tasks', p, d) = TieClass(tasks, p, d)]_vars

\* prioritize_tasks has run on two different tasks of equal priority and equal due
\* date
StableWitness ==
    /\ last.op = "prioritize"
    /\ Len(tasks) = 2
    /\ tasks[1].priority = tasks[2].priority
    /\ tasks[1].due_date = tasks[2].due_date
    /\ tasks[1] # tasks[2]

\* how many times the record r stands in seq
Count(seq, r) == Cardinality({i \in 1..Len(seq) : seq[i] = r})

\* C16: prioritize_tasks only permutes the collection: every record (id, name,
\* priority, due_date, status) stands in the collection after it as many times as
\* before it, so none is added, dropped, duplicated or changed.
PrioritizePermutes ==
    [][last'.op = "prioritize"
        => /\ Len(tasks') = Len(tasks)
           /\ \A i \in 1..Len(tasks) :
                 Count(tasks', tasks[i]) = Count(tasks, tasks[i])]_vars

\* prioritize_tasks has moved a Completed task with a later key behind a Pending
\* one that was added after it
PermutesWitness ==
    /\ last.op = "prioritize"
    /\ Len(tasks) = 2
    /\ tasks[1].task_id = 2 /\ tasks[1].status = "Pending"
    /\ tasks[2].task_id = 1 /\ tasks[2].status = "Completed"
    /\ KeyLess(tasks[1], tasks[2])

\* C15: Task.postpone(days) on a task with a due date returns with the due date
\* moved by days, of either sign, and nothing else changed; on a task without a
\* due date it returns with nothing changed.
PostponeShiftsDueDate ==
    [][last'.op = "postpone"
        => /\ pc' = "running"
           /\ \E i \in 1..Len(tasks) :
                 /\ tasks[i].task_id = last'.id
                 /\ IF tasks[i].due_date = None THEN tasks' = tasks
                    ELSE \E days \in PostponeDays :
                           tasks' = [tasks EXCEPT
                                        ![i].due_date = <<tasks[i].due_date[1] + days>>]]_vars

\* C17: remove_task(i) with a task of id i in the collection removes one task,
\* the first of id i: the collection is one shorter, the tasks before that one
\* (none of id i) and the tasks after it are all there, unchanged and in the same
\* order.
RemoveRemovesFirst ==
    [][(last'.op = "remove" /\ \E i \in 1..Len(tasks) : tasks[i].task_id = last'.id)
        => /\ Len(tasks') = Len(tasks) - 1
           /\ \E k \in 1..Len(tasks) :
                 /\ tasks[k].task_id = last'.id
                 /\ \A j \in 1..(k - 1) :
                       tasks[j].task_id # last'.id /\ tasks'[j] = tasks[j]
                 /\ \A j \in (k + 1)..Len(tasks) : tasks'[j - 1] = tasks[j]]_vars

\* remove_task has removed the first of two tasks of the same id: the other one
\* is still there
RemoveWitness ==
    /\ last.op = "remove"
    /\ Reported("removed")
    /\ Len(tasks) = 1
    /\ tasks[1].task_id = last.id
====
